---- MODULE Spec2Model ----
(***************************************************************************)
(* Morphic UI: the session controller of src/app/page.tsx (Home: submit,   *)
(* reset, the continuation of the pending fetch) and the /api/generate     *)
(* proxy (POST) that forwards a prompt to the A2A agent and normalizes the *)
(* agent's response parts into {messages, text}.                           *)
(*                                                                         *)
(* Strings are sequences of tokens.  A token is one character class or one *)
(* literal the code matches on: ordinary text, whitespace, the two halves  *)
(* of the sentinel "---a2ui_JSON---", the code fence, the <text> tags, and *)
(* the JSON punctuation and atoms.  The JSON fragment is atoms and flat    *)
(* arrays of atoms; no input drawn below nests arrays.                     *)
(***************************************************************************)
EXTENDS Integers, Sequences, FiniteSets, TLC

VARIABLES
    variant,        \* which generate handler of the repository serves /api/generate
    state,          \* Home: AppState
    a2uiMessages,   \* Home: messages handed to A2UIRenderer
    history,        \* Home: the conversation thread (HistoryTurn[])
    lastPrompt,     \* Home: lastPrompt
    errorMsg,       \* Home: errorMsg
    inflight,       \* fetches to /api/generate awaiting their response, oldest first,
                    \* each with the session as it was before its submit and whether
                    \* reset ran since
    agentReq,       \* the JSON-RPC payload the agent received for the latest request
    lastOp,         \* the handler that ran last, and how it ended
    before,         \* the session as it was just before the handler call lastOp is about
    lastResult,     \* data.text and data.messages of the last successful turn
    nParts,         \* normalizer run: the parts of the agent response
    nIdx,           \* normalizer run: index of the next part of the for loop
    nAcc,           \* normalizer run: a2uiMessages / textContent accumulated so far
    nPc,            \* normalizer run: position in POST
    rMessages,      \* renderer run: the messages prop of A2UIRenderer
    rPc,            \* renderer run: position in the effect of A2UIRenderer
    rSurfaceId,     \* renderer run: surfaceId handed to the a2ui-surface element
    pReq,           \* proxy call: the JSON body of the request
    pResp,          \* proxy call: the response of POST
    pSent,          \* proxy call: the JSON-RPC payload fetch sent to the agent, if any
    pPc,            \* proxy call: position in POST
    inits,          \* mounted A2UIRenderer: the init() calls started, oldest first
    container       \* mounted A2UIRenderer: the children of containerRef.current

vars == <<variant, state, a2uiMessages, history, lastPrompt, errorMsg, inflight,
          agentReq, lastOp, before, lastResult, nParts, nIdx, nAcc, nPc,
          rMessages, rPc, rSurfaceId, pReq, pResp, pSent, pPc, inits, container>>

sessionVars == <<state, a2uiMessages, history, lastPrompt, errorMsg, inflight,
                 agentReq, lastOp, before, lastResult>>

normVars == <<nParts, nIdx, nAcc, nPc>>

renderVars == <<rMessages, rPc, rSurfaceId>>

postVars == <<pReq, pResp, pSent, pPc>>

mountVars == <<inits, container>>

-----------------------------------------------------------------------------
(* Bounds *)

\* refinement turns are offered while the thread holds fewer than 2 * MaxTurns turns
MaxTurns == 2

\* number of parts of an agent response in the normalizer runs
MaxParts == 2

\* pending fetches when the handlers are driven without the views in between
MaxInflight == 2

\* number of messages handed to A2UIRenderer in the renderer runs
MaxMsgs == 3

\* init() calls of one mounted A2UIRenderer
MaxInits == 2

-----------------------------------------------------------------------------
(* Strings *)

WS == {" ", "\n"}

\* "---a2ui_JSON---", cut in two so that it can straddle two text parts
Delimiter == <<"---a2ui_", "JSON---">>

\* the markdown code fence, three backquotes
Fence == "'''"
JsonTag == "json"
TextOpen == "<text>"
TextClose == "</text>"

RECURSIVE TrimStart(_)
TrimStart(s) ==
    IF s # <<>> /\ Head(s) \in WS THEN TrimStart(Tail(s)) ELSE s

RECURSIVE TrimEnd(_)
TrimEnd(s) ==
    IF s # <<>> /\ s[Len(s)] \in WS THEN TrimEnd(SubSeq(s, 1, Len(s) - 1)) ELSE s

Trim(s) == TrimStart(TrimEnd(s))

\* pat occurs in s at position i
OccursAt(s, pat, i) ==
    /\ i >= 1
    /\ i + Len(pat) - 1 <= Len(s)
    /\ \A k \in 1..Len(pat) : s[i + k - 1] = pat[k]

\* String.prototype.includes
Includes(s, pat) == \E i \in 1..Len(s) : OccursAt(s, pat, i)

\* String.prototype.indexOf, 1-based; 0 when pat does not occur
IndexOf(s, pat) ==
    IF Includes(s, pat)
    THEN CHOOSE i \in 1..Len(s) :
            OccursAt(s, pat, i) /\ \A j \in 1..(i - 1) : ~OccursAt(s, pat, j)
    ELSE 0

\* String.prototype.split(pat): every piece, left to right
RECURSIVE Split(_, _)
Split(s, pat) ==
    LET i == IndexOf(s, pat) IN
    IF i = 0 THEN <<s>>
    ELSE <<SubSeq(s, 1, i - 1)>> \o Split(SubSeq(s, i + Len(pat), Len(s)), pat)

\* String.prototype.split(pat, 2): the first two pieces at most
Split2(s, pat) ==
    LET all == Split(s, pat) IN
    IF Len(all) <= 2 THEN all ELSE SubSeq(all, 1, 2)

-----------------------------------------------------------------------------
(* JSON values and their text *)

Msg(tag, surfaceId, arg) == [tag |-> tag, surfaceId |-> surfaceId, arg |-> arg]

BeginS1 == Msg("beginRendering", "s1", "r1")
BeginS2 == Msg("beginRendering", "s2", "r2")
UpdateS1 == Msg("surfaceUpdate", "s1", "r1")
DataS1 == Msg("dataModelUpdate", "s1", "/")
JNull == Msg("null", "", "")

JsonValues == {BeginS1, BeginS2, UpdateS1, DataS1, JNull}

\* the JSON text of an atom, one token
AtomText(v) ==
    CASE v = BeginS1 -> "{beginRendering:s1,r1}"
      [] v = BeginS2 -> "{beginRendering:s2,r2}"
      [] v = UpdateS1 -> "{surfaceUpdate:s1,[r1]}"
      [] v = DataS1 -> "{dataModelUpdate:s1,/}"
      [] v = JNull -> "null"

AtomTokens == {AtomText(v) : v \in JsonValues}

AtomValue(tok) == CHOOSE v \in JsonValues : AtomText(v) = tok

\* JSON.stringify of an array of values
RECURSIVE JoinAtoms(_)
JoinAtoms(vals) ==
    IF vals = <<>> THEN <<>>
    ELSE IF Len(vals) = 1 THEN <<AtomText(vals[1])>>
    ELSE <<AtomText(vals[1]), ",">> \o JoinAtoms(Tail(vals))

JSONStringify(vals) == <<"[">> \o JoinAtoms(vals) \o <<"]">>

RemoveWS(s) == SelectSeq(s, LAMBDA t : t \notin WS)

\* the elements between the brackets: atom (, atom)*
RECURSIVE ParseElements(_)
ParseElements(t) ==
    IF Len(t) = 1 /\ t[1] \in AtomTokens
    THEN [ok |-> TRUE, vals |-> <<AtomValue(t[1])>>]
    ELSE IF Len(t) >= 3 /\ t[1] \in AtomTokens /\ t[2] = ","
    THEN LET rest == ParseElements(SubSeq(t, 3, Len(t))) IN
         [ok |-> rest.ok,
          vals |-> IF rest.ok THEN <<AtomValue(t[1])>> \o rest.vals ELSE <<>>]
    ELSE [ok |-> FALSE, vals |-> <<>>]

\* JSON.parse: ok is FALSE where it throws SyntaxError
JSONParse(s) ==
    LET t == RemoveWS(s) IN
    IF Len(t) = 1 /\ t[1] \in AtomTokens
    THEN [ok |-> TRUE, isArray |-> FALSE, vals |-> <<AtomValue(t[1])>>]
    ELSE IF Len(t) = 2 /\ t[1] = "[" /\ t[2] = "]"
    THEN [ok |-> TRUE, isArray |-> TRUE, vals |-> <<>>]
    ELSE IF Len(t) >= 3 /\ t[1] = "[" /\ t[Len(t)] = "]"
    THEN LET e == ParseElements(SubSeq(t, 2, Len(t) - 1)) IN
         [ok |-> e.ok, isArray |-> TRUE, vals |-> e.vals]
    ELSE [ok |-> FALSE, isArray |-> FALSE, vals |-> <<>>]

-----------------------------------------------------------------------------
(* The response parts of the agent *)

A2uiMime == "application/json+a2ui"

\* a part of the parts array; isNull marks a null entry, textType the JavaScript
\* type of part.text ("number": a non-zero number, text then holds its String()),
\* hasData whether part.data is truthy
Part(kind, textType, text, mimeType, hasData, data) ==
    [isNull |-> FALSE, kind |-> kind, textType |-> textType, text |-> text,
     mimeType |-> mimeType, hasData |-> hasData, data |-> data]

TextPart(s) == Part("text", "string", s, "", FALSE, JNull)
DataPart(mime, v) == Part("data", "missing", <<>>, mime, TRUE, v)
NullPart == [Part("", "missing", <<>>, "", FALSE, JNull) EXCEPT !.isNull = TRUE]

\* a2uiMessages and textContent of POST; threw when the loop raised a TypeError
Acc(messages, text) == [messages |-> messages, text |-> text, threw |-> FALSE]

EmptyAcc == Acc(<<>>, <<>>)

Threw == [EmptyAcc EXCEPT !.threw = TRUE]

\* jsonPart.trim().replace(/^```json\s*/i, "").replace(/\s*```$/, "").trim()
StripOpenFence(s) ==
    IF Len(s) >= 2 /\ s[1] = Fence /\ s[2] = JsonTag
    THEN TrimStart(SubSeq(s, 3, Len(s)))
    ELSE s

StripCloseFence(s) ==
    IF s # <<>> /\ s[Len(s)] = Fence
    THEN TrimEnd(SubSeq(s, 1, Len(s) - 1))
    ELSE s

CleanJson(jsonPart) == Trim(StripCloseFence(StripOpenFence(Trim(jsonPart))))

ExtractArraysOnly(jsonPart) ==
    IF Trim(jsonPart) = <<>> THEN <<>>
    ELSE LET parsed == JSONParse(CleanJson(jsonPart)) IN
         IF parsed.ok /\ parsed.isArray THEN parsed.vals ELSE <<>>

\* the messages pushed for one candidate JSON document: an array is spread, any
\* other value is pushed as one message, a SyntaxError is caught and pushes nothing
ExtractMessages(jsonPart) ==
    IF Trim(jsonPart) = <<>> THEN <<>>
    ELSE LET parsed == JSONParse(CleanJson(jsonPart)) IN
         IF parsed.ok THEN parsed.vals ELSE <<>>

\* [before, jsonPart] = raw.split("---a2ui_JSON---", 2), raw including the delimiter
BeforeOf(raw) == Split2(raw, Delimiter)[1]

JsonPartOf(raw) == Split2(raw, Delimiter)[2]

InlineTextDropsPlain(acc, raw) ==
    IF Includes(raw, Delimiter)
    THEN [acc EXCEPT !.text = acc.text \o TrimEnd(BeforeOf(raw)),
                     !.messages = acc.messages \o ExtractMessages(JsonPartOf(raw))]
    ELSE acc

\* the text branch of the for loop of route.ts and part_002
InlineText(acc, raw) ==
    IF Includes(raw, Delimiter)
    THEN [acc EXCEPT !.text = acc.text \o TrimEnd(BeforeOf(raw)),
                     !.messages = acc.messages \o ExtractMessages(JsonPartOf(raw))]
    ELSE [acc EXCEPT !.text = acc.text \o raw]

\* the data branch of the for loop, the same in the three handlers
PushData(acc, part) ==
    IF part.kind = "data" /\ part.mimeType = A2uiMime /\ part.hasData
    THEN [acc EXCEPT !.messages = Append(acc.messages, part.data)]
    ELSE acc

\* one iteration of the for loop of src/app/api/generate/route.ts
RouteTsPart(acc, part) ==
    IF part.isNull THEN Threw
    ELSE PushData(IF part.kind = "text" /\ part.textType = "string"
                  THEN InlineText(acc, part.text)
                  ELSE acc,
                  part)

\* one iteration of the for loop of part_002
Part002Part(acc, part) ==
    IF part.isNull THEN Threw
    ELSE IF part.kind = "data" /\ part.mimeType = A2uiMime /\ part.hasData
    THEN PushData(acc, part)
    ELSE IF part.kind = "text" /\ part.textType = "string"
    THEN InlineText(acc, part.text)
    ELSE acc

\* part.text is truthy
TruthyText(part) ==
    \/ part.textType = "string" /\ part.text # <<>>
    \/ part.textType = "number"

\* one iteration of the for loop of part_001
Part001Part(acc, part) ==
    IF part.isNull THEN Threw
    ELSE PushData(IF part.kind = "text" \/ TruthyText(part)
                  THEN [acc EXCEPT !.text =
                            acc.text \o (IF TruthyText(part) THEN part.text ELSE <<>>)]
                  ELSE acc,
                  part)

Variants == {"route.ts", "part_001", "part_002"}

LoopPart(v, acc, part) ==
    CASE v = "route.ts" -> RouteTsPart(acc, part)
      [] v = "part_001" -> Part001Part(acc, part)
      [] v = "part_002" -> Part002Part(acc, part)

\* the final fallback of route.ts
RouteTsFallback(acc) ==
    IF acc.messages = <<>> /\ Includes(acc.text, Delimiter)
    THEN [acc EXCEPT !.text = TrimEnd(BeforeOf(acc.text)),
                     !.messages = ExtractMessages(JsonPartOf(acc.text))]
    ELSE acc

\* the fallback of part_001: textContent keeps the delimiter and what follows it
Part001Fallback(acc) ==
    IF acc.messages = <<>> /\ Includes(acc.text, Delimiter)
    THEN [acc EXCEPT !.messages = ExtractMessages(JsonPartOf(acc.text))]
    ELSE acc

Fallback(v, acc) ==
    CASE v = "route.ts" -> RouteTsFallback(acc)
      [] v = "part_001" -> Part001Fallback(acc)
      [] v = "part_002" -> acc

\* textContent.replace(/^<text>\s*/i, "").replace(/\s*<\/text>$/i, "").trim()
StripOpenTag(s) ==
    IF s # <<>> /\ s[1] = TextOpen THEN TrimStart(Tail(s)) ELSE s

KeepsCloseTag(s) == s

StripCloseTag(s) ==
    IF s # <<>> /\ s[Len(s)] = TextClose
    THEN TrimEnd(SubSeq(s, 1, Len(s) - 1))
    ELSE s

StripTextTags(s) == Trim(StripCloseTag(StripOpenTag(s)))

PostProcess(v, acc) ==
    IF v = "part_001" THEN acc ELSE [acc EXCEPT !.text = StripTextTags(acc.text)]

\* the for loop over parts, from accumulator acc
RECURSIVE Loop(_, _, _)
Loop(v, acc, parts) ==
    IF acc.threw \/ parts = <<>> THEN acc
    ELSE Loop(v, LoopPart(v, acc, Head(parts)), Tail(parts))

\* the normalization of POST: from the parts to {messages, text}, or threw
Normalize(v, parts) ==
    LET looped == Loop(v, EmptyAcc, parts) IN
    IF looped.threw THEN Threw ELSE PostProcess(v, Fallback(v, looped))

-----------------------------------------------------------------------------
(* The proxy: POST of /api/generate *)

\* the exchange with the agent as fetch and agentResponse.json() see it
AgentFailures == {"refused", "timeout", "fetchError", "httpError", "rpcError"}

Outcome(kind, parts) == [kind |-> kind, parts |-> parts]

\* NextResponse.json(...): the HTTP status and the JSON body
Response(status, error, messages, text) ==
    [status |-> status, error |-> error, messages |-> messages, text |-> text]

ErrorResponse(status, error) == Response(status, error, <<>>, <<>>)

\* the request body JSON.stringify({ prompt, history }) of the page
Body(prompt, hist) == [prompt |-> prompt, history |-> hist]

\* rpcPayload as the agent receives it: the prompt part, and the
\* metadata.conversationHistory that only part_002 attaches
RpcPayload(v, body) ==
    [prompt |-> Trim(body.prompt),
     hasHistory |-> (v = "part_002"),
     conversationHistory |-> IF v = "part_002" THEN body.history ELSE <<>>]

FetchFailureAsResult(v, kind) == Response("200", "", <<BeginS1>>, <<>>)

\* the catch around fetch(A2A_AGENT_URL), which part_001 does not have
FetchFailure(v, kind) ==
    IF v = "part_001" THEN ErrorResponse("500", "fetch failed")
    ELSE IF kind = "refused" THEN ErrorResponse("503", "Cannot reach the A2A agent")
    ELSE IF kind = "timeout" THEN ErrorResponse("504", "A2A agent timed out")
    ELSE ErrorResponse("500", "fetch failed")

POST(v, body, outcome) ==
    IF Trim(body.prompt) = <<>> THEN ErrorResponse("400", "prompt is required")
    ELSE IF outcome.kind \in {"refused", "timeout", "fetchError"}
    THEN FetchFailure(v, outcome.kind)
    ELSE IF outcome.kind = "httpError" THEN ErrorResponse("502", "Agent returned 500")
    ELSE IF outcome.kind = "rpcError" THEN ErrorResponse("500", "Agent error")
    ELSE LET n == Normalize(v, outcome.parts) IN
         IF n.threw THEN ErrorResponse("500", "Cannot read properties of null")
         ELSE Response("200", "", n.messages, n.text)

ContactsAlways(body) == TRUE

\* whether POST contacts the agent at all
ContactsAgent(body) == Trim(body.prompt) # <<>>

\* a request body as any client may send it: prompt is a string, a number or missing
Request(promptType, prompt, hist) ==
    [promptType |-> promptType, prompt |-> prompt, history |-> hist]

\* !prompt || typeof prompt !== "string": such a body is answered before prompt.trim()
PostRequest(v, req, outcome) ==
    IF req.promptType # "string" THEN ErrorResponse("400", "prompt is required")
    ELSE POST(v, Body(req.prompt, req.history), outcome)

\* whether fetch(A2A_AGENT_URL) is reached for the request
Fetches(req) ==
    req.promptType = "string" /\ ContactsAgent(Body(req.prompt, req.history))

-----------------------------------------------------------------------------
(* The session: Home of src/app/page.tsx *)

Turn(role, content) == [role |-> role, content |-> content]

\* res.json(): the messages as they arrive over the wire
WireMessages(messages) == JSONParse(JSONStringify(messages)).vals

TurnErrorAllowsEmpty(resp) ==
    IF resp.status # "200" THEN "Server error"
    ELSE IF resp.error # "" THEN resp.error
    ELSE ""

\* the error the try block of submit throws for a response, "" when it throws none
TurnError(resp) ==
    IF resp.status # "200" THEN "Server error"
    ELSE IF resp.error # "" THEN resp.error
    ELSE IF WireMessages(resp.messages) = <<>> THEN "Claude generated no UI"
    ELSE ""

FirstMessageOnly(text, messages) ==
    IF text # <<>>
    THEN text \o <<"\n">> \o Delimiter \o <<"\n">> \o JSONStringify(<<messages[1]>>)
    ELSE JSONStringify(<<messages[1]>>)

TextOnly(text, messages) == text

\* assistantContent of submit
AssistantContent(text, messages) ==
    IF text # <<>>
    THEN text \o <<"\n">> \o Delimiter \o <<"\n">> \o JSONStringify(messages)
    ELSE JSONStringify(messages)

\* beginMsg of A2UIRenderer: the renderer paints nothing without a beginRendering
\* message, and reports nothing to Home either way
HasBeginRendering(messages) ==
    \E i \in 1..Len(messages) : messages[i].tag = "beginRendering"

Snapshot ==
    [state |-> state, history |-> history, a2uiMessages |-> a2uiMessages,
     lastPrompt |-> lastPrompt, errorMsg |-> errorMsg, pending |-> Len(inflight)]

NoResult == [text |-> <<>>, messages |-> <<>>]

NoRequest == [prompt |-> <<>>, hasHistory |-> FALSE, conversationHistory |-> <<>>]

SubmitIgnoresBusy(trimmed) == trimmed = <<>>

\* the early return of submit
SubmitReturnsEarly(trimmed) == trimmed = <<>> \/ state = "thinking"

\* if (!isRefinement): a new-UI submit empties a2uiMessages and history
ClearsOnSubmit(isRefinement) == ~isRefinement

\* submit(prompt, isRefinement), up to the await of fetch
Submit(prompt, isRefinement) ==
    LET trimmed == Trim(prompt)
        historyToSend == IF isRefinement THEN history ELSE <<>>
    IN  /\ before' = Snapshot
        /\ IF SubmitReturnsEarly(trimmed)
           THEN /\ lastOp' = IF trimmed = <<>> THEN "submit blank" ELSE "submit ignored"
                /\ UNCHANGED <<state, a2uiMessages, history, lastPrompt, errorMsg,
                               inflight, agentReq>>
           ELSE /\ lastPrompt' = trimmed
                /\ state' = "thinking"
                /\ errorMsg' = ""
                /\ a2uiMessages' = IF ClearsOnSubmit(isRefinement) THEN <<>> ELSE a2uiMessages
                /\ history' = IF ClearsOnSubmit(isRefinement) THEN <<>> ELSE history
                /\ inflight' = Append(inflight,
                                      [prompt |-> trimmed,
                                       historyToSend |-> historyToSend,
                                       before |-> Snapshot,
                                       resetSince |-> FALSE])
                /\ agentReq' = RpcPayload(variant, Body(trimmed, historyToSend))
                /\ lastOp' = IF isRefinement THEN "submit refine" ELSE "submit new"
        /\ UNCHANGED <<variant, lastResult>>
        /\ UNCHANGED <<normVars, renderVars, postVars, mountVars>>

Remove(seq, i) == SubSeq(seq, 1, i - 1) \o SubSeq(seq, i + 1, Len(seq))

AssistantTurnOnly(prompt, content) == <<Turn("assistant", content)>>

TurnsSwapped(prompt, content) == <<Turn("assistant", content), Turn("user", prompt)>>

\* the two turns setHistory appends after historyToSend
NewTurns(prompt, content) == <<Turn("user", prompt), Turn("assistant", content)>>

AppendsToSurface(shown, messages) == shown \o messages

\* setA2uiMessages(data.messages): the messages of the turn replace those shown
SurfaceMessages(shown, messages) == messages

ContinueStaysThinking(req, resp, messages) ==
    /\ before' = req.before
    /\ IF TurnError(resp) = ""
       THEN /\ a2uiMessages' = SurfaceMessages(a2uiMessages, messages)
            /\ state' = "rendered"
            /\ history' = req.historyToSend \o
                    NewTurns(req.prompt, AssistantContent(resp.text, messages))
            /\ lastResult' = [text |-> resp.text, messages |-> messages]
            /\ lastOp' = "turn ok"
            /\ UNCHANGED errorMsg
       ELSE /\ errorMsg' = TurnError(resp)
            /\ lastOp' = "turn failed"
            /\ UNCHANGED <<state, a2uiMessages, history, lastResult>>

\* the rest of submit once the response resp to request req is there
Continue(req, resp, messages) ==
    /\ before' = req.before
    /\ IF TurnError(resp) = ""
       THEN /\ a2uiMessages' = SurfaceMessages(a2uiMessages, messages)
            /\ state' = "rendered"
            /\ history' = req.historyToSend \o
                    NewTurns(req.prompt, AssistantContent(resp.text, messages))
            /\ lastResult' = [text |-> resp.text, messages |-> messages]
            /\ lastOp' = "turn ok"
            /\ UNCHANGED errorMsg
       ELSE /\ errorMsg' = TurnError(resp)
            /\ state' = "error"
            /\ lastOp' = "turn failed"
            /\ UNCHANGED <<a2uiMessages, history, lastResult>>

\* submit after the await: the response of pending fetch i arrives
Complete(i, outcome) ==
    /\ inflight' = Remove(inflight, i)
    /\ \E resp \in {POST(variant, Body(inflight[i].prompt, inflight[i].historyToSend),
                         outcome)} :
          \E messages \in {WireMessages(resp.messages)} :
              Continue(inflight[i], resp, messages)
    /\ UNCHANGED <<variant, lastPrompt, agentReq>>
    /\ UNCHANGED <<normVars, renderVars, postVars, mountVars>>

\* the pending fetches, each marked as sent before a reset
MarkReset(pending) ==
    [i \in 1..Len(pending) |-> [pending[i] EXCEPT !.resetSince = TRUE]]

ResetKeepsThread ==
    /\ before' = Snapshot
    /\ state' = "idle"
    /\ a2uiMessages' = <<>>
    /\ errorMsg' = ""
    /\ lastOp' = "reset"
    /\ inflight' = MarkReset(inflight)
    /\ UNCHANGED <<variant, history, lastPrompt, agentReq, lastResult>>
    /\ UNCHANGED <<normVars, renderVars, postVars, mountVars>>

ResetKeepsMessages ==
    /\ before' = Snapshot
    /\ state' = "idle"
    /\ errorMsg' = ""
    /\ history' = <<>>
    /\ lastOp' = "reset"
    /\ inflight' = MarkReset(inflight)
    /\ UNCHANGED <<variant, a2uiMessages, lastPrompt, agentReq, lastResult>>
    /\ UNCHANGED <<normVars, renderVars, postVars, mountVars>>

\* reset()
Reset ==
    /\ before' = Snapshot
    /\ state' = "idle"
    /\ a2uiMessages' = <<>>
    /\ errorMsg' = ""
    /\ history' = <<>>
    /\ lastOp' = "reset"
    /\ inflight' = MarkReset(inflight)
    /\ UNCHANGED <<variant, lastPrompt, agentReq, lastResult>>
    /\ UNCHANGED <<normVars, renderVars, postVars, mountVars>>

-----------------------------------------------------------------------------
(* Inputs *)

Prompts == {<<"p">>, <<" ", "q", " ">>, <<" ">>, <<>>}

TextAndTwo ==
    <<"a", "\n">> \o Delimiter \o
    <<"\n", "[", AtomText(BeginS1), ",", AtomText(UpdateS1), "]">>

OnlyJson == Delimiter \o <<"[", AtomText(BeginS2), "]">>

\* the parts the agent answers with in the session
ReplyParts ==
    {<<TextPart(TextAndTwo)>>,
     <<DataPart(A2uiMime, BeginS1), DataPart(A2uiMime, UpdateS1)>>,
     <<TextPart(<<"a">>)>>,
     <<DataPart(A2uiMime, UpdateS1)>>,
     <<NullPart>>}

AgentOutcomes ==
    {Outcome(k, <<>>) : k \in AgentFailures} \cup {Outcome("ok", ps) : ps \in ReplyParts}

-----------------------------------------------------------------------------
(* The session as the views of Home drive it *)

\* the views call submit(..., false) from the idle view and submit(..., true), with
\* a non-blank value, from the rendered view; a call made while thinking is the one
\* the guard of submit is there for
SubmitOffered(prompt, isRefinement) ==
    \/ state = "idle" /\ ~isRefinement
    \/ state = "rendered" /\ isRefinement /\ Trim(prompt) # <<>>
          /\ Len(history) < 2 * MaxTurns
    \/ state = "thinking"

\* "New UI" of the rendered view and "Try again" of the error view
ResetOffered == state \in {"rendered", "error"}

InitSession ==
    /\ variant \in Variants
    /\ state = "idle"
    /\ a2uiMessages = <<>>
    /\ history = <<>>
    /\ lastPrompt = <<>>
    /\ errorMsg = ""
    /\ inflight = <<>>
    /\ agentReq = NoRequest
    /\ lastOp = "init"
    /\ before = [state |-> "idle", history |-> <<>>, a2uiMessages |-> <<>>,
                 lastPrompt |-> <<>>, errorMsg |-> "", pending |-> 0]
    /\ lastResult = NoResult

\* no renderer run
RenderIdle ==
    /\ rMessages = <<>>
    /\ rPc = "idle"
    /\ rSurfaceId = ""

\* no call of the proxy other than the session's
PostIdle ==
    /\ pReq = Request("missing", <<>>, <<>>)
    /\ pResp = ErrorResponse("", "")
    /\ pSent = NoRequest
    /\ pPc = "idle"

\* no mounted renderer
MountIdle ==
    /\ inits = <<>>
    /\ container = <<>>

\* no normalizer run
NormIdle ==
    /\ nParts = <<>>
    /\ nIdx = 1
    /\ nAcc = EmptyAcc
    /\ nPc = "idle"

Init ==
    /\ InitSession
    /\ NormIdle
    /\ RenderIdle
    /\ PostIdle
    /\ MountIdle

UserSubmits ==
    \E prompt \in Prompts, isRefinement \in BOOLEAN :
        /\ SubmitOffered(prompt, isRefinement)
        /\ SubmitReturnsEarly(Trim(prompt)) \/ Len(inflight) < MaxInflight
        /\ Submit(prompt, isRefinement)

ResponseArrives ==
    \E i \in 1..Len(inflight), outcome \in AgentOutcomes : Complete(i, outcome)

UserResets == ResetOffered /\ Reset

Next == UserSubmits \/ ResponseArrives \/ UserResets

Spec == Init /\ [][Next]_vars

\* every fetch submit awaits settles: each path of POST returns a response, and
\* AbortSignal.timeout(60_000) ends the wait for the agent
SpecLive == Init /\ [][Next]_vars /\ WF_vars(ResponseArrives)

-----------------------------------------------------------------------------
(* The session when reset is also called while a fetch is pending: reset     *)
(* has no guard of its own, only the views keep it from being called then    *)

ResetWhilePending == inflight # <<>> /\ Reset

NextApi == Next \/ ResetWhilePending

SpecApi == Init /\ [][NextApi]_vars

-----------------------------------------------------------------------------
(* One run of the normalization of POST over a parts array, part by part *)

Untagged ==
    Delimiter \o <<Fence, "\n", "[", AtomText(BeginS1), "]", "\n", Fence>>

Fenced ==
    <<"a">> \o Delimiter \o
    <<Fence, JsonTag, "\n", "[", AtomText(BeginS1), "]", "\n", Fence>>

Truncated == <<"b", " ">> \o Delimiter \o <<"[", AtomText(DataS1)>>

SingleObject == <<"a", " ">> \o Delimiter \o <<"\n", AtomText(BeginS2)>>

TwoDelimiters ==
    <<"a">> \o Delimiter \o <<AtomText(UpdateS1)>> \o Delimiter \o <<"b">>

TextSamples ==
    {<<"a">>,
     <<" ", "a", "\n">>,
     <<TextOpen, "a", " ", TextClose>>,
     <<"a", Delimiter[1]>>,
     <<Delimiter[2], "[", AtomText(DataS1), "]">>,
     TextAndTwo, OnlyJson, Fenced, Untagged, Truncated, TwoDelimiters, SingleObject,
     Delimiter \o <<"null">>,
     Delimiter \o <<" ">>}

PartSamples ==
    {TextPart(t) : t \in TextSamples} \cup
    {DataPart(A2uiMime, BeginS2),
     DataPart("text/plain", UpdateS1),
     [DataPart(A2uiMime, JNull) EXCEPT !.hasData = FALSE],
     Part("text", "missing", <<>>, "", FALSE, JNull),
     Part("text", "number", <<"7">>, "", FALSE, JNull),
     Part("file", "string", <<"a">>, "", FALSE, JNull),
     [DataPart(A2uiMime, BeginS1) EXCEPT !.kind = "file"],
     NullPart}

RECURSIVE SeqsUpTo(_, _)
SeqsUpTo(S, n) ==
    IF n = 0 THEN {<<>>}
    ELSE LET shorter == SeqsUpTo(S, n - 1) IN
         shorter \cup {Append(q, x) : q \in shorter, x \in S}

InitNorm ==
    /\ InitSession
    /\ nParts \in SeqsUpTo(PartSamples, MaxParts)
    /\ nIdx = 1
    /\ nAcc = EmptyAcc
    /\ nPc = "loop"
    /\ RenderIdle
    /\ PostIdle
    /\ MountIdle

\* one iteration of for (const part of parts)
NormPart ==
    /\ nPc = "loop"
    /\ nIdx <= Len(nParts)
    /\ nAcc' = LoopPart(variant, nAcc, nParts[nIdx])
    /\ nIdx' = nIdx + 1
    /\ nPc' = IF nAcc'.threw THEN "done" ELSE "loop"
    /\ UNCHANGED <<variant, nParts>>
    /\ UNCHANGED <<sessionVars, renderVars, postVars, mountVars>>

\* the fallback after the loop
NormFallback ==
    /\ nPc = "loop"
    /\ nIdx > Len(nParts)
    /\ nAcc' = Fallback(variant, nAcc)
    /\ nPc' = "post"
    /\ UNCHANGED <<variant, nParts, nIdx>>
    /\ UNCHANGED <<sessionVars, renderVars, postVars, mountVars>>

\* the post-processing of textContent and the response
NormRespond ==
    /\ nPc = "post"
    /\ nAcc' = PostProcess(variant, nAcc)
    /\ nPc' = "done"
    /\ UNCHANGED <<variant, nParts, nIdx>>
    /\ UNCHANGED <<sessionVars, renderVars, postVars, mountVars>>

NextNorm == NormPart \/ NormFallback \/ NormRespond

SpecNorm == InitNorm /\ [][NextNorm]_vars

\* the part-by-part run ends with what Normalize computes in one go
NormRunAgrees == nPc = "done" => nAcc = Normalize(variant, nParts)

-----------------------------------------------------------------------------
(* One run of the effect of A2UIRenderer over a messages list *)

\* "beginRendering" in m: the in operator throws a TypeError on null
ThrowsOnIn(m) == m = JNull

\* messages.find((m) => "beginRendering" in m): the messages are tested from the
\* first on, the test stops at the first match; at is 0 when none matches
RECURSIVE FindBegin(_, _)
FindBegin(messages, i) ==
    IF i > Len(messages) THEN [threw |-> FALSE, at |-> 0]
    ELSE IF ThrowsOnIn(messages[i]) THEN [threw |-> TRUE, at |-> 0]
    ELSE IF messages[i].tag = "beginRendering" THEN [threw |-> FALSE, at |-> i]
    ELSE FindBegin(messages, i + 1)

FindsLast(messages) ==
    IF \E i \in 1..Len(messages) : ThrowsOnIn(messages[i]) THEN [threw |-> TRUE, at |-> 0]
    ELSE IF ~HasBeginRendering(messages) THEN [threw |-> FALSE, at |-> 0]
    ELSE [threw |-> FALSE,
          at |-> CHOOSE i \in 1..Len(messages) :
                    /\ messages[i].tag = "beginRendering"
                    /\ \A j \in (i + 1)..Len(messages) :
                          messages[j].tag # "beginRendering"]

\* beginMsg of the effect
FirstBegin(messages) == FindBegin(messages, 1)

InitRender ==
    /\ InitSession
    /\ NormIdle
    /\ rMessages \in SeqsUpTo(JsonValues, MaxMsgs)
    /\ rPc = "effect"
    /\ rSurfaceId = ""
    /\ PostIdle
    /\ MountIdle

\* the guard of the effect: nothing is done for an empty list
RenderEffect ==
    /\ rPc = "effect"
    /\ rPc' = IF Len(rMessages) = 0 THEN "blank" ELSE "find"
    /\ UNCHANGED <<rMessages, rSurfaceId, variant>>
    /\ UNCHANGED <<sessionVars, normVars, postVars, mountVars>>

\* beginMsg and surfaceId; a TypeError is caught and logged, no beginRendering
\* message returns, and the container stays blank either way
RenderFind ==
    /\ rPc = "find"
    /\ \E found \in {FirstBegin(rMessages)} :
          IF found.threw \/ found.at = 0
          THEN rPc' = "blank" /\ UNCHANGED rSurfaceId
          ELSE rPc' = "process" /\ rSurfaceId' = rMessages[found.at].surfaceId
    /\ UNCHANGED <<rMessages, variant>>
    /\ UNCHANGED <<sessionVars, normVars, postVars, mountVars>>

\* a new A2uiMessageProcessor is fed the messages and asked for the surface of
\* surfaceId; the processor is the library's, it hands back a surface or none
RenderProcess ==
    /\ rPc = "process"
    /\ \E surface \in BOOLEAN : rPc' = IF surface THEN "painted" ELSE "blank"
    /\ UNCHANGED <<rMessages, rSurfaceId, variant>>
    /\ UNCHANGED <<sessionVars, normVars, postVars, mountVars>>

NextRender == RenderEffect \/ RenderFind \/ RenderProcess

SpecRender == InitRender /\ [][NextRender]_vars

-----------------------------------------------------------------------------
(* POST of /api/generate called with any request body, next to the session   *)
(* calling submit                                                            *)

PostRequests ==
    {Request("string", p, <<>>) : p \in Prompts} \cup
    {Request("number", <<"7">>, <<>>), Request("missing", <<>>, <<>>)}

InitPost ==
    /\ InitSession
    /\ NormIdle
    /\ RenderIdle
    /\ MountIdle
    /\ pReq \in PostRequests
    /\ pResp = ErrorResponse("", "")
    /\ pSent = NoRequest
    /\ pPc = "request"

\* POST from req.json() to its response
PostHandles ==
    /\ pPc = "request"
    /\ \E outcome \in AgentOutcomes : pResp' = PostRequest(variant, pReq, outcome)
    /\ pSent' = IF Fetches(pReq)
                THEN RpcPayload(variant, Body(pReq.prompt, pReq.history))
                ELSE NoRequest
    /\ pPc' = "answered"
    /\ UNCHANGED <<variant, pReq>>
    /\ UNCHANGED <<sessionVars, normVars, renderVars, mountVars>>

NextPost == UserSubmits \/ PostHandles

SpecPost == InitPost /\ [][NextPost]_vars

-----------------------------------------------------------------------------
(* One mounted A2UIRenderer whose messages prop changes: every change runs   *)
(* the effect, which starts an init() and has no cleanup                     *)

\* the messages lists handed to the renderer, none empty
MountLists == {<<BeginS1, UpdateS1>>, <<UpdateS1, BeginS2>>, <<UpdateS1>>}

InitMount ==
    /\ InitSession
    /\ NormIdle
    /\ RenderIdle
    /\ PostIdle
    /\ MountIdle

\* the effect runs for a new messages list: init() is called and runs up to its
\* first await
MessagesChange ==
    /\ Len(inits) < MaxInits
    /\ \E messages \in MountLists :
          inits' = Append(inits, [messages |-> messages, pc |-> "import", el |-> <<>>])
    /\ UNCHANGED <<variant, container>>
    /\ UNCHANGED <<sessionVars, normVars, renderVars, postVars>>

\* init() k after its imports, up to its next await: the container is emptied, and
\* the a2ui-surface element is appended unless there is no beginRendering message or
\* no surface
InitPaints(k) ==
    /\ inits[k].pc = "import"
    /\ \E found \in {FirstBegin(inits[k].messages)}, surface \in BOOLEAN :
          IF found.threw \/ found.at = 0 \/ ~surface
          THEN /\ container' = <<>>
               /\ inits' = [inits EXCEPT ![k].pc = "done"]
          ELSE \E el \in {[init |-> k,
                           surfaceId |-> inits[k].messages[found.at].surfaceId]} :
                  /\ container' = Append(<<>>, el)
                  /\ inits' = [inits EXCEPT ![k].pc = "wait", ![k].el = <<el>>]
    /\ UNCHANGED variant
    /\ UNCHANGED <<sessionVars, normVars, renderVars, postVars>>

\* init() k after whenDefined and the timer: its own element is given the surface
InitBinds(k) ==
    /\ inits[k].pc = "wait"
    /\ inits' = [inits EXCEPT ![k].pc = "done"]
    /\ UNCHANGED <<variant, container>>
    /\ UNCHANGED <<sessionVars, normVars, renderVars, postVars>>

\* the awaits of the pending init() calls settle in any order
ImportsSettle == \E k \in 1..Len(inits) : InitPaints(k)

TimerFires == \E k \in 1..Len(inits) : InitBinds(k)

NextMount == MessagesChange \/ ImportsSettle \/ TimerFires

SpecMount == InitMount /\ [][NextMount]_vars

-----------------------------------------------------------------------------
(* Claims C1 to C10 *)

SubmitOps == {"submit blank", "submit ignored", "submit new", "submit refine"}

SessionAsBefore ==
    /\ state = before.state
    /\ history = before.history
    /\ a2uiMessages = before.a2uiMessages
    /\ lastPrompt = before.lastPrompt
    /\ errorMsg = before.errorMsg
    /\ Len(inflight) = before.pending

\* C1: while a generation request is in flight, a further submit (new-UI or refine)
\* sends no request and changes no session state, and at most one request is in
\* flight at any time.
C1_SubmitWhilePendingIsNoOp ==
    /\ Len(inflight) <= 1
    /\ (lastOp \in SubmitOps /\ before.pending > 0) =>
           (lastOp \in {"submit blank", "submit ignored"} /\ SessionAsBefore)

C1_Witness ==
    /\ lastOp = "submit ignored"
    /\ before.state = "thinking"
    /\ before.pending = 1
    /\ Len(inflight) = 1

\* C2: after a failed turn the thread and the surface messages equal what they were
\* immediately before the submit, and the UI is left as it was before the attempt
\* (the view the submit was made from is still the one shown).
C2_FailedTurnLeavesUiAsBefore ==
    lastOp = "turn failed" =>
        /\ history = before.history
        /\ a2uiMessages = before.a2uiMessages
        /\ state = before.state

\* what a failed turn does leave: the thread and the surface messages are kept, the
\* view is the error view with its message
FailedTurnKeepsThreadAndMessages ==
    lastOp = "turn failed" =>
        /\ history = before.history
        /\ a2uiMessages = before.a2uiMessages
        /\ state = "error"
        /\ errorMsg # ""

\* a refinement of a rendered surface has failed
FailedRefinement ==
    /\ lastOp = "turn failed"
    /\ before.state = "rendered"
    /\ Len(history) >= 2
    /\ a2uiMessages # <<>>

C3_CompletionStep ==
    Len(inflight') < Len(inflight) =>
        IF state' = "rendered"
        THEN /\ Len(history') = Len(history) + 2
             /\ SubSeq(history', 1, Len(history)) = history
             /\ history'[Len(history) + 1].role = "user"
             /\ history'[Len(history) + 2].role = "assistant"
        ELSE history' = history

\* C3: the thread length is even in every reachable state; a successful turn adds
\* exactly one user turn followed by one assistant turn, a failed turn adds nothing.
C3_ThreadIsPaired ==
    /\ [](Len(history) % 2 = 0)
    /\ [][C3_CompletionStep]_vars

C3_Witness ==
    /\ lastOp = "turn ok"
    /\ Len(history) = 4
    /\ before.state = "rendered"

C5_ResetLeavesIdleAndEmpty ==
    lastOp = "reset" =>
        /\ state = "idle"
        /\ history = <<>>
        /\ a2uiMessages = <<>>

C5_Witness ==
    /\ lastOp = "reset"
    /\ before.state = "rendered"
    /\ before.history # <<>>
    /\ before.a2uiMessages # <<>>

\* C6: the request that reaches the agent carries the session's full turn list as of
\* the submission for a refine submission, and an empty thread for a new-UI one.
C6_AgentReceivesThread ==
    /\ lastOp = "submit refine" => agentReq.conversationHistory = before.history
    /\ lastOp = "submit new" => agentReq.conversationHistory = <<>>

LastTurn == history[Len(history)]

\* the content has the delimiter, followed by the JSON of the messages
DelimiterThenJson(content, messages) ==
    \E i \in 1..Len(content) :
        /\ OccursAt(content, Delimiter, i)
        /\ Trim(SubSeq(content, i + Len(Delimiter), Len(content))) = JSONStringify(messages)

\* C7: after every successful turn the assistant turn's content contains the
\* delimiter followed by the JSON of exactly that turn's messages, whether or not
\* the text is empty.
C7_ContentAlwaysHasDelimiter ==
    lastOp = "turn ok" =>
        /\ LastTurn.role = "assistant"
        /\ DelimiterThenJson(LastTurn.content, lastResult.messages)

\* what the content is: with a non-empty text, the text, a newline, the delimiter, a
\* newline and the JSON of exactly that turn's messages; with an empty text that
\* JSON alone, no delimiter in front
ContentIsTextDelimiterJsonOrJson ==
    lastOp = "turn ok" =>
        /\ LastTurn.role = "assistant"
        /\ lastResult.messages = a2uiMessages
        /\ LastTurn.content =
              IF lastResult.text # <<>>
              THEN lastResult.text \o <<"\n">> \o Delimiter \o <<"\n">> \o
                   JSONStringify(a2uiMessages)
              ELSE JSONStringify(a2uiMessages)

\* a successful turn with an empty text has left bare JSON in the thread
BareJsonTurn ==
    /\ lastOp = "turn ok"
    /\ lastResult.text = <<>>
    /\ Len(a2uiMessages) = 2
    /\ LastTurn.content = JSONStringify(a2uiMessages)
    /\ ~Includes(LastTurn.content, Delimiter)

\* the thread of the request sent last
SentThread == inflight[Len(inflight)].historyToSend

\* some suffix of the content is JSON text that parses to the list messages
EmbedsJsonOf(content, messages) ==
    \E k \in 1..Len(content) :
        LET parsed == JSONParse(SubSeq(content, k, Len(content))) IN
        parsed.ok /\ parsed.isArray /\ parsed.vals = messages

\* C8: the thread sent with a refine request has, in its last assistant turn, JSON
\* text that parses back to the messages list of the last successful response, same
\* messages in the same order.
C8_SentThreadEmbedsMessages ==
    lastOp = "submit refine" =>
        /\ SentThread # <<>>
        /\ SentThread[Len(SentThread)].role = "assistant"
        /\ EmbedsJsonOf(SentThread[Len(SentThread)].content, lastResult.messages)

C8_Witness ==
    /\ lastOp = "submit refine"
    /\ Len(lastResult.messages) = 2
    /\ lastResult.text # <<>>
    /\ Len(SentThread) = 2

\* C9: for every list of parts, null entries included, normalization returns a
\* {messages, text} result and never an error outcome.
C9_NormalizationNeverRaises == nPc = "done" => ~nAcc.threw

IsTextPart(part) == ~part.isNull /\ part.kind = "text" /\ part.textType = "string"

HasDelimiter(part) == IsTextPart(part) /\ Includes(part.text, Delimiter)

Occurrences(s, pat) == Cardinality({i \in 1..Len(s) : OccursAt(s, pat, i)})

BeforeDelimiter(raw) == SubSeq(raw, 1, IndexOf(raw, Delimiter) - 1)

AfterDelimiter(raw) == SubSeq(raw, IndexOf(raw, Delimiter) + Len(Delimiter), Len(raw))

\* a text part whose content after the delimiter is not blank and is invalid JSON
InvalidJsonPart(part) ==
    /\ HasDelimiter(part)
    /\ Trim(AfterDelimiter(part.text)) # <<>>
    /\ ~JSONParse(CleanJson(AfterDelimiter(part.text))).ok

\* the messages a part is to contribute: its data for a protocol data part, the
\* parsed document for a text part with valid JSON after its delimiter
OwnMessages(part) ==
    IF part.isNull THEN <<>>
    ELSE IF part.kind = "data" /\ part.mimeType = A2uiMime /\ part.hasData
    THEN <<part.data>>
    ELSE IF HasDelimiter(part) /\ ~InvalidJsonPart(part)
    THEN JSONParse(CleanJson(AfterDelimiter(part.text))).vals
    ELSE <<>>

RECURSIVE AllOwnMessages(_)
AllOwnMessages(parts) ==
    IF parts = <<>> THEN <<>>
    ELSE OwnMessages(Head(parts)) \o AllOwnMessages(Tail(parts))

\* the text a part is to contribute
OwnText(part) ==
    IF ~IsTextPart(part) THEN <<>>
    ELSE IF HasDelimiter(part) THEN TrimEnd(BeforeDelimiter(part.text))
    ELSE part.text

RECURSIVE AllOwnText(_)
AllOwnText(parts) ==
    IF parts = <<>> THEN <<>>
    ELSE OwnText(Head(parts)) \o AllOwnText(Tail(parts))

\* a finished run of route.ts or part_002 over a batch with an invalid-JSON text
\* part, no text part repeating the delimiter
BatchWithInvalidJson ==
    /\ nPc = "done"
    /\ variant \in {"route.ts", "part_002"}
    /\ \E i \in 1..Len(nParts) : InvalidJsonPart(nParts[i])
    /\ \A i \in 1..Len(nParts) :
          IsTextPart(nParts[i]) => Occurrences(nParts[i].text, Delimiter) <= 1

\* the invalid part adds no message and keeps its text before the delimiter, the
\* other parts add theirs, in order
OthersStillContribute ==
    AllOwnMessages(nParts) # <<>> =>
        /\ nAcc.messages = AllOwnMessages(nParts)
        /\ nAcc.text = StripTextTags(AllOwnText(nParts))

\* C10: a text part whose post-delimiter content is invalid JSON contributes zero
\* messages, its pre-delimiter text is kept, and every other well-formed part of the
\* same batch, before or after it, still contributes its messages.
C10_InvalidJsonPartDoesNotVoidBatch ==
    BatchWithInvalidJson => (~nAcc.threw /\ OthersStillContribute)

\* the same on the batches that hold no null entry
HoldsWithoutNullEntries ==
    (BatchWithInvalidJson /\ \A i \in 1..Len(nParts) : ~nParts[i].isNull) =>
        (~nAcc.threw /\ OthersStillContribute)

-----------------------------------------------------------------------------
(* Claims C11 to C20 *)

\* a finished run of route.ts or part_002, the handlers that scan each text part
ScanningRun == nPc = "done" /\ variant \in {"route.ts", "part_002"}

\* the contents of the parts, concatenated in order
RECURSIVE TextsInOrder(_)
TextsInOrder(parts) ==
    IF parts = <<>> THEN <<>> ELSE Head(parts).text \o TextsInOrder(Tail(parts))

\* every part is a text part and none holds the delimiter
PlainTextBatch ==
    /\ nParts # <<>>
    /\ \A i \in 1..Len(nParts) : IsTextPart(nParts[i]) /\ ~HasDelimiter(nParts[i])

\* C11: for a batch of text parts none of which contains the delimiter,
\* normalization returns no messages and the contents concatenated in order.
C11_PlainTextIsConcatenated ==
    (ScanningRun /\ PlainTextBatch) =>
        /\ ~nAcc.threw
        /\ nAcc.messages = <<>>
        /\ nAcc.text = TextsInOrder(nParts)

\* C11, as the handlers have it: for a batch of text parts none of which contains the delimiter and
\* whose concatenation does not contain it either, normalization returns no messages
\* and the contents concatenated in order, with a leading <text> and a trailing
\* </text> tag removed and the result trimmed.
C11_PlainTextIsConcatenatedAndStripped ==
    (ScanningRun /\ PlainTextBatch /\ ~Includes(TextsInOrder(nParts), Delimiter)) =>
        /\ ~nAcc.threw
        /\ nAcc.messages = <<>>
        /\ nAcc.text = StripTextTags(TextsInOrder(nParts))

C11_Witness ==
    /\ ScanningRun
    /\ variant = "route.ts"
    /\ PlainTextBatch
    /\ Len(nParts) = 2
    /\ nAcc.messages = <<>>
    /\ nAcc.text = <<"a", "a">>

\* the step of the loop that processes part nParts[nIdx] in route.ts or part_002
ScansPart ==
    /\ nPc = "loop"
    /\ nIdx <= Len(nParts)
    /\ nIdx' = nIdx + 1
    /\ variant \in {"route.ts", "part_002"}

\* part is a text part T + delimiter + J, J a JSON array or a single object
DelimitedValidJson(part) ==
    /\ IsTextPart(part)
    /\ Occurrences(part.text, Delimiter) = 1
    /\ LET parsed == JSONParse(AfterDelimiter(part.text)) IN
           parsed.ok /\ (parsed.isArray \/ parsed.vals # <<JNull>>)

C12_Step ==
    (ScansPart /\ DelimitedValidJson(nParts[nIdx])) =>
        LET raw == nParts[nIdx].text
            parsed == JSONParse(AfterDelimiter(raw))
        IN  /\ ~nAcc'.threw
            /\ nAcc'.text = nAcc.text \o TrimEnd(BeforeDelimiter(raw))
            /\ nAcc'.messages = nAcc.messages \o parsed.vals

\* C12: for a text part T + delimiter + J with J valid JSON, the loop adds T with
\* its trailing whitespace removed to the text, and adds to the messages the
\* elements of J in order when J is an array, J itself when it is a single object.
C12_DelimitedPartAddsTextAndMessages == [][C12_Step]_vars

C12_Witness ==
    /\ variant = "route.ts"
    /\ nParts = <<TextPart(TextAndTwo), TextPart(SingleObject)>>
    /\ nIdx = 3
    /\ nAcc.text = <<"a", "a">>
    /\ nAcc.messages = <<BeginS1, UpdateS1, BeginS2>>

\* no text part of the batch holds the delimiter more than once
NoRepeatedDelimiter ==
    \A i \in 1..Len(nParts) :
        IsTextPart(nParts[i]) => Occurrences(nParts[i].text, Delimiter) <= 1

NoNullEntry == \A i \in 1..Len(nParts) : ~nParts[i].isNull

\* C13: the messages returned are the in-order concatenation of each part's
\* contribution: a data part with the protocol mime type contributes its data as one
\* message, a text part the messages parsed after its delimiter, any other part
\* nothing.
C13_MessagesAreContributionsInOrder ==
    (ScanningRun /\ NoRepeatedDelimiter) =>
        (~nAcc.threw /\ nAcc.messages = AllOwnMessages(nParts))

\* the same on the batches that hold no null entry and that the fallback of route.ts
\* does not apply to
ContributionsInOrderWithoutNull ==
    (/\ ScanningRun
     /\ NoRepeatedDelimiter
     /\ NoNullEntry
     /\ \/ variant = "part_002"
        \/ AllOwnMessages(nParts) # <<>>
        \/ ~Includes(AllOwnText(nParts), Delimiter)) =>
        (~nAcc.threw /\ nAcc.messages = AllOwnMessages(nParts))

\* a2uiMessages and textContent once every part is processed
Looped == Loop(variant, EmptyAcc, nParts)

\* the loop has left no message and a text that holds the delimiter, once, and no
\* part holds the delimiter by itself
DelimiterOnlyInWhole ==
    /\ nPc = "done"
    /\ ~Looped.threw
    /\ \A i \in 1..Len(nParts) : ~HasDelimiter(nParts[i])
    /\ Looped.messages = <<>>
    /\ Occurrences(Looped.text, Delimiter) = 1

\* the messages are those of the JSON after the delimiter of the whole text, the
\* text returned is what precedes the delimiter
ExtractedFromWhole ==
    LET parsed == JSONParse(CleanJson(AfterDelimiter(Looped.text))) IN
    /\ nAcc.messages = IF parsed.ok THEN parsed.vals ELSE <<>>
    /\ nAcc.text = StripTextTags(TrimEnd(BeforeDelimiter(Looped.text)))
    /\ ~Includes(nAcc.text, Delimiter)

\* C14: if, after all parts are processed, the messages are empty and the
\* accumulated text contains the delimiter, the extraction is applied once to the
\* concatenated text: the parsed suffix supplies the messages and the returned text
\* is only the part before the delimiter.
C14_FallbackExtractsFromWholeText == DelimiterOnlyInWhole => ExtractedFromWhole

\* the same for the handler of src/app/api/generate/route.ts alone
FallbackExtractsInRouteTs ==
    (DelimiterOnlyInWhole /\ variant = "route.ts") => ExtractedFromWhole

\* route.ts has taken its messages from a delimiter that straddles two parts
StraddlingDelimiterExtracted ==
    /\ DelimiterOnlyInWhole
    /\ variant = "route.ts"
    /\ Len(nParts) = 2
    /\ nAcc.messages = <<DataS1>>
    /\ nAcc.text = <<"a">>

\* the document between the fences of a fenced candidate, the language tag left out
Unfenced(jsonPart) ==
    LET t == Trim(jsonPart) IN
    IF Len(t) >= 2 /\ t[2] = JsonTag
    THEN SubSeq(t, 3, Len(t) - 1)
    ELSE SubSeq(t, 2, Len(t) - 1)

\* part is a text part whose content after the delimiter is a valid JSON document
\* between two code fences
FencedJson(part) ==
    /\ IsTextPart(part)
    /\ Occurrences(part.text, Delimiter) = 1
    /\ LET t == Trim(AfterDelimiter(part.text)) IN
           /\ Len(t) >= 3
           /\ t[1] = Fence
           /\ t[Len(t)] = Fence
           /\ JSONParse(Unfenced(t)).ok

HasLanguageTag(part) == Trim(AfterDelimiter(part.text))[2] = JsonTag

C15_Step ==
    (ScansPart /\ FencedJson(nParts[nIdx])) =>
        nAcc'.messages =
            nAcc.messages \o JSONParse(Unfenced(AfterDelimiter(nParts[nIdx].text))).vals

\* C15: a JSON document after the delimiter that is wrapped in a code fence yields
\* the same messages as the document unfenced, with the "json" language tag on the
\* opening fence and without it.
C15_FencedJsonYieldsSameMessages == [][C15_Step]_vars

\* the same for the fences that carry the language tag
TaggedFenceIsStripped ==
    [][(ScansPart /\ FencedJson(nParts[nIdx]) /\ HasLanguageTag(nParts[nIdx]))
          => C15_Step]_vars

\* the step of the loop that processes a part whose kind is neither text nor data
SkipsUnknownKind ==
    /\ nPc = "loop"
    /\ nIdx <= Len(nParts)
    /\ nIdx' = nIdx + 1
    /\ ~nParts[nIdx].isNull
    /\ nParts[nIdx].kind \notin {"text", "data"}

\* C16: a part whose kind is neither "text" nor "data" contributes nothing to the
\* messages and nothing to the text, whatever other fields it carries, and does not
\* make the turn fail.
C16_UnknownKindIsIgnored ==
    [][(SkipsUnknownKind /\ variant \in {"route.ts", "part_001"}) => nAcc' = nAcc]_vars

\* the same for the handlers that test part.kind alone
UnknownKindIsIgnoredByKindTest ==
    [][(SkipsUnknownKind /\ variant \in {"route.ts", "part_002"}) => nAcc' = nAcc]_vars

\* the step that post-processes textContent in route.ts or part_002
StripsText ==
    /\ nPc = "post"
    /\ nPc' = "done"
    /\ variant \in {"route.ts", "part_002"}

\* s with a <text> at its start and a </text> at its end removed, nothing else
WithoutTags(s) ==
    LET opened == IF s # <<>> /\ s[1] = TextOpen THEN Tail(s) ELSE s IN
    IF opened # <<>> /\ opened[Len(opened)] = TextClose
    THEN SubSeq(opened, 1, Len(opened) - 1)
    ELSE opened

\* C17: the text returned has the <text> tag removed from its start and the </text>
\* tag removed from its end when present, and is otherwise the accumulated text.
C17_TextIsAccumulatedWithoutTags ==
    [][StripsText => nAcc'.text = WithoutTags(nAcc.text)]_vars

\* C17, as the handlers have it: the text returned is the accumulated text with the <text> tag
\* removed from its start and the </text> tag removed from its end when present,
\* and then trimmed of the whitespace at both ends, the whitespace that followed
\* the opening tag and preceded the closing tag included.
C17_TextIsAccumulatedWithoutTagsTrimmed ==
    [][StripsText => nAcc'.text = Trim(WithoutTags(nAcc.text))]_vars

C17_Witness ==
    /\ nPc = "done"
    /\ variant = "part_002"
    /\ nParts = <<TextPart(<<" ", "a", "\n">>), TextPart(<<TextOpen, "a", " ", TextClose>>)>>
    /\ nAcc.text = <<"a", "\n", TextOpen, "a">>

\* the response to pending request i under outcome
ResponseTo(i, outcome) ==
    POST(variant, Body(inflight[i].prompt, inflight[i].historyToSend), outcome)

\* outcome is a reply that normalizes to an empty messages list
NormalizesToNoMessages(i, outcome) ==
    \E resp \in {ResponseTo(i, outcome)} :
        resp.status = "200" /\ resp.error = "" /\ resp.messages = <<>>

C18_Step ==
    \A i \in 1..Len(inflight), outcome \in AgentOutcomes :
        (inflight' = Remove(inflight, i) /\ NormalizesToNoMessages(i, outcome)
            /\ Complete(i, outcome)) =>
            /\ state' = "error"
            /\ errorMsg' = "Claude generated no UI"
            /\ history' = history
            /\ a2uiMessages' = a2uiMessages

\* C18: a turn whose normalized messages list is empty is a no-UI outcome: the
\* session reports a "no UI" error, nothing is appended to the thread and no surface
\* is rendered.
C18_EmptyMessagesIsNoUiError == [][C18_Step]_vars

C18_Witness ==
    /\ lastOp = "turn failed"
    /\ errorMsg = "Claude generated no UI"
    /\ state = "error"
    /\ before.state = "rendered"
    /\ Len(history) = 2

\* C19: if the chosen surface of a turn cannot be resolved (the messages hold no
\* beginRendering), the turn is reported as a no-UI error: the session ends in the
\* error state, not the rendered state, and no turn is appended to the thread.
C19_UnresolvableSurfaceIsNoUiError ==
    (lastOp \in {"turn ok", "turn failed"} /\ ~HasBeginRendering(a2uiMessages)) =>
        /\ state = "error"
        /\ history = before.history

\* the view shown lets the user submit a refinement, which sends the thread
RefinementOffered ==
    \E prompt \in Prompts :
        SubmitOffered(prompt, TRUE) /\ ~SubmitReturnsEarly(Trim(prompt))

\* C20: after a failed refinement turn the session still holds the thread and the
\* messages of the last rendered surface from before the attempt, and the user can
\* submit again with that same thread sent as context.
C20_RetryKeepsContext ==
    (lastOp = "turn failed" /\ before.state = "rendered") =>
        /\ history = before.history
        /\ a2uiMessages = before.a2uiMessages
        /\ RefinementOffered

\* the only step out of the error view is reset, which empties the thread
ErrorViewOnlyResets ==
    [][state = "error" => (state' = "idle" /\ history' = <<>> /\ a2uiMessages' = <<>>)]_vars

-----------------------------------------------------------------------------
(* Claims C21 to C30 *)

\* C21: when the messages hold more than one beginRendering, the surface chosen for
\* rendering is the one the first beginRendering in message order names, whatever
\* later ones name.
C21_FirstBeginRenderingWins ==
    rPc \in {"process", "painted"} =>
        \E i \in 1..Len(rMessages) :
            /\ rMessages[i].tag = "beginRendering"
            /\ rMessages[i].surfaceId = rSurfaceId
            /\ \A j \in 1..(i - 1) : rMessages[j].tag # "beginRendering"

C21_Witness ==
    /\ rPc = "painted"
    /\ rMessages = <<UpdateS1, BeginS2, BeginS1>>
    /\ rSurfaceId = "s2"

\* C22: every turn's surface is resolved from that turn's messages alone: after any
\* sequence of turns the messages handed to the renderer, which feeds them to a new
\* processor, are those of the latest turn, and none of an earlier turn remains.
C22_SurfaceIsFromLatestTurnAlone ==
    state = "rendered" => a2uiMessages = lastResult.messages

C22_Witness ==
    /\ state = "rendered"
    /\ lastOp = "turn ok"
    /\ Len(history) = 4
    /\ before.a2uiMessages = <<BeginS1, UpdateS1>>
    /\ a2uiMessages = <<UpdateS1>>

\* the exchange behind response i fails: fetch rejects, the agent answers with a
\* non-success status or an error object, or the handler throws while it
\* reads the parts
ExchangeFails(outcome) ==
    \/ outcome.kind \in AgentFailures
    \/ Normalize(variant, outcome.parts).threw

\* C25: every failure of the agent exchange (unreachable, timed out, non-success
\* status, error object, unexpected exception) is answered with an error result
\* that carries no messages and no text, and moves the session to the error
\* state, never to rendered.
C25_Step ==
    \A i \in 1..Len(inflight), outcome \in AgentOutcomes :
        (/\ inflight' = Remove(inflight, i)
         /\ ExchangeFails(outcome)
         /\ Complete(i, outcome))
            => \E resp \in {ResponseTo(i, outcome)} :
                   /\ resp.status # "200"
                   /\ resp.error # ""
                   /\ resp.messages = <<>>
                   /\ resp.text = <<>>
                   /\ state' = "error"
                   /\ errorMsg' # ""

C25_ExchangeFailureIsErrorResult == [][C25_Step]_vars

C25_Witness ==
    /\ state = "error"
    /\ lastOp = "turn failed"
    /\ errorMsg = "Server error"
    /\ before.state = "idle"
    /\ variant = "route.ts"

\* C26: every turn that enters thinking eventually leaves it, to rendered or to
\* error, given that the agent answers or the timeout of the fetch fires.
C26_ThinkingEventuallyEnds ==
    (state = "thinking") ~> (state \in {"rendered", "error"})

C26_Witness ==
    /\ state = "rendered"
    /\ lastOp = "turn ok"
    /\ before.state = "rendered"
    /\ Len(history) = 4
    /\ inflight = <<>>
    /\ variant = "part_002"

\* the loop processes a text part that holds the delimiter more than once
ScansRepeatedDelimiter ==
    /\ ScansPart
    /\ IsTextPart(nParts[nIdx])
    /\ Occurrences(nParts[nIdx].text, Delimiter) >= 2

\* C27: for a text part that holds the delimiter more than once, the text
\* contribution is everything before the first occurrence and the candidate JSON
\* document is everything after the first occurrence, later occurrences and what
\* follows them included.
C27_Step ==
    ScansRepeatedDelimiter =>
        LET raw == nParts[nIdx].text IN
            /\ nAcc'.text = nAcc.text \o TrimEnd(BeforeDelimiter(raw))
            /\ nAcc'.messages = nAcc.messages \o ExtractMessages(AfterDelimiter(raw))

C27_CandidateIsAllAfterFirstDelimiter == [][C27_Step]_vars

\* the text half does hold: the text added is what precedes the first occurrence
RepeatedDelimiterTextIsBeforeFirst ==
    [][ScansRepeatedDelimiter =>
           nAcc'.text = nAcc.text \o TrimEnd(BeforeDelimiter(nParts[nIdx].text))]_vars

\* the candidate the handlers parse ends at the second occurrence
RepeatedDelimiterCutAtSecond ==
    /\ variant = "route.ts"
    /\ nParts = <<TextPart(TwoDelimiters)>>
    /\ nIdx = 2
    /\ nAcc.text = <<"a">>
    /\ nAcc.messages = <<UpdateS1>>

\* the tags of the three protocol messages
MessageTags == {"beginRendering", "surfaceUpdate", "dataModelUpdate"}

\* C28: every element of the messages returned by normalization is a well-formed
\* protocol message (a beginRendering, a surfaceUpdate or a dataModelUpdate); a
\* payload or parsed value of any other shape is skipped and not returned.
C28_MessagesAreProtocolMessages ==
    (nPc = "done" /\ ~nAcc.threw) =>
        \A i \in 1..Len(nAcc.messages) : nAcc.messages[i].tag \in MessageTags

\* a parsed null is returned as a message
NullIsReturnedAsMessage ==
    /\ nPc = "done"
    /\ ~nAcc.threw
    /\ nParts = <<TextPart(Delimiter \o <<"null">>)>>
    /\ nAcc.messages = <<JNull>>

\* thread p is kept, turn for turn, at the start of thread q
IsPrefix(p, q) == Len(p) <= Len(q) /\ SubSeq(q, 1, Len(p)) = p

\* the roles of a thread are user, assistant, user, assistant, ...
RolesAlternate(thread) ==
    \A i \in 1..Len(thread) :
        thread[i].role = IF i % 2 = 1 THEN "user" ELSE "assistant"

\* the step is the success of a refine turn
RefineSucceeds == lastOp' = "turn ok" /\ before'.state = "rendered"

\* C29: the thread is append-only between resets: a successful refine turn keeps
\* every existing turn as a prefix and appends a user turn (the prompt) then an
\* assistant turn, so that roles alternate user, assistant from the first turn on.
C29_Step ==
    /\ lastOp' # "reset" => IsPrefix(history, history')
    /\ RefineSucceeds =>
           /\ Len(history') = Len(history) + 2
           /\ history # <<>>
           /\ history'[Len(history) + 1] = Turn("user", lastPrompt)
           /\ history'[Len(history) + 2].role = "assistant"
    /\ RolesAlternate(history')

C29_ThreadIsAppendOnly == [][C29_Step]_vars

C29_Witness ==
    /\ state = "rendered"
    /\ lastOp = "turn ok"
    /\ before.state = "rendered"
    /\ Len(history) = 4
    /\ SubSeq(history, 1, 2) = before.history
    /\ history[3] = Turn("user", <<"q">>)
    /\ variant = "route.ts"

\* C30: in every reachable state of the session, idle comes with an empty thread
\* and no surface messages, rendered with surface messages and a thread of at
\* least two turns.
C30_IdleIsEmptyRenderedIsNot ==
    /\ state = "idle" => (history = <<>> /\ a2uiMessages = <<>>)
    /\ state = "rendered" => (a2uiMessages # <<>> /\ Len(history) >= 2)

C30_Witness ==
    /\ state = "idle"
    /\ lastOp = "reset"
    /\ before.state = "rendered"
    /\ before.a2uiMessages # <<>>
    /\ Len(before.history) = 4
    /\ history = <<>>
    /\ a2uiMessages = <<>>

-----------------------------------------------------------------------------
(* Claims C31 to C35 *)

\* C31: whenever the session is rendered, the last turn of the thread is an
\* assistant turn whose embedded JSON encodes exactly the messages handed to the
\* renderer, whatever the interleaving of submits, completions and resets.
C31_LastTurnEncodesShownMessages ==
    state = "rendered" =>
        /\ history # <<>>
        /\ LastTurn.role = "assistant"
        /\ EmbedsJsonOf(LastTurn.content, a2uiMessages)

\* a result that arrives after a reset, with another request still pending
C31_Witness ==
    /\ state = "rendered"
    /\ lastOp = "turn ok"
    /\ before.state = "idle"
    /\ Len(inflight) = 1
    /\ inflight[1].resetSince
    /\ Len(a2uiMessages) = 2
    /\ Len(history) = 2

\* C32: the text returned by normalization never contains the delimiter, for every
\* list of parts, also when the delimiter is split across two text parts while
\* another part already supplied messages.
C32_TextNeverHoldsDelimiter ==
    (ScanningRun /\ ~nAcc.threw) => ~Includes(nAcc.text, Delimiter)

\* route.ts cuts the text whenever it returns no messages: the fallback runs on
\* a2uiMessages.length === 0 only
RouteTsCutsTextWithoutMessages ==
    (nPc = "done" /\ variant = "route.ts" /\ ~nAcc.threw /\ nAcc.messages = <<>>)
        => ~Includes(nAcc.text, Delimiter)

\* the first half of the delimiter ends one text part, the second half starts the next
Straddles(first, second) ==
    /\ IsTextPart(first) /\ IsTextPart(second)
    /\ ~Includes(first.text, Delimiter) /\ ~Includes(second.text, Delimiter)
    /\ Includes(first.text \o second.text, Delimiter)

\* a delimiter that straddles two parts is returned in the text
StraddlingDelimiterReturned ==
    /\ nPc = "done"
    /\ variant = "part_002"
    /\ Len(nParts) = 2
    /\ Straddles(nParts[1], nParts[2])
    /\ Includes(nAcc.text, Delimiter)

\* the same in route.ts once another part has supplied messages
StraddlingDelimiterReturnedWithMessages ==
    /\ nPc = "done"
    /\ variant = "route.ts"
    /\ Len(nParts) = 3
    /\ nAcc.messages # <<>>
    /\ \E i \in 1..2 : Straddles(nParts[i], nParts[i + 1])
    /\ Includes(nAcc.text, Delimiter)

\* what route.ts returns for the one text part whose text is content
Renormalized(content) == Normalize("route.ts", <<TextPart(content)>>)

\* the session has built an assistant turn from a result of route.ts
BuiltTurn == lastOp = "turn ok" /\ variant = "route.ts"

\* C33: normalizing a single text part whose text is the content of an assistant
\* turn, as the session builds it from (text, M), returns text and M again, for
\* every text, empty or not, and every messages list M.
C33_ContentNormalizesBack ==
    BuiltTurn =>
        \E n \in {Renormalized(LastTurn.content)} :
            /\ ~n.threw
            /\ n.text = lastResult.text
            /\ n.messages = lastResult.messages

\* it does when the text is not empty
ContentWithTextNormalizesBack ==
    (BuiltTurn /\ lastResult.text # <<>>) =>
        \E n \in {Renormalized(LastTurn.content)} :
            /\ ~n.threw
            /\ n.text = lastResult.text
            /\ n.messages = lastResult.messages

\* a turn built from an empty text comes back as text, without messages
BareJsonComesBackAsText ==
    /\ BuiltTurn
    /\ lastResult.text = <<>>
    /\ Len(lastResult.messages) = 2
    /\ Renormalized(LastTurn.content).messages = <<>>
    /\ Renormalized(LastTurn.content).text = LastTurn.content

\* the prompt POST answers with 400: not a string, empty or only whitespace
NoPrompt(req) == req.promptType # "string" \/ Trim(req.prompt) = <<>>

C34_Step ==
    /\ \A prompt \in Prompts, isRefinement \in BOOLEAN :
           (Trim(prompt) = <<>> /\ Submit(prompt, isRefinement)) =>
               UNCHANGED <<state, a2uiMessages, history, lastPrompt, errorMsg,
                           inflight, agentReq>>
    /\ (pPc' = "answered" /\ NoPrompt(pReq')) =>
           /\ pResp' = ErrorResponse("400", "prompt is required")
           /\ pSent' = NoRequest

\* C34: a prompt that is empty or only whitespace starts no turn: submit changes no
\* state of the session and sends nothing, and the proxy answers such a prompt, or
\* one that is no string, with a 400 error without contacting the agent.
C34_BlankPromptStartsNoTurn == [][C34_Step]_vars

C34_Witness ==
    /\ lastOp = "submit blank"
    /\ state = "idle"
    /\ inflight = <<>>
    /\ pPc = "answered"
    /\ pReq = Request("string", <<" ">>, <<>>)
    /\ pResp.status = "400"

\* every init() started has run to its end
AllSettled == \A k \in 1..Len(inits) : inits[k].pc = "done"

ContainerHoldsAtMostOne == Len(container) <= 1

\* the init() of the first list painted after that of the second
StaleSurfaceShown ==
    /\ Len(inits) = 2
    /\ AllSettled
    /\ inits[1].messages = <<BeginS1, UpdateS1>>
    /\ inits[2].messages = <<UpdateS1, BeginS2>>
    /\ inits[2].el # <<>>
    /\ container = <<[init |-> 1, surfaceId |-> "s1"]>>

====
